---- MODULE Spec2Model ----
(***************************************************************************)
(* A model of plot/functions.py: the four figure builders (line, scatter,  *)
(* scatter3, surface), the style adapter style_to_matplotlib and the       *)
(* exporter save.                                                          *)
(*                                                                         *)
(* Figures are objects on a heap (heap maps an object id to the figure's   *)
(* value), so that copying and aliasing are distinguishable.  Settings     *)
(* are strings as they appear in the figure's JSON ("850", "2.4",          *)
(* "True"); "None" is a setting that was never set.                        *)
(***************************************************************************)
EXTENDS Integers, Sequences, FiniteSets, TLC

VARIABLES
    heap,       \* object id -> figure value ([data, layout])
    bcall,      \* the builder call in progress: [pc, fn, df, args, fig, ret]
    displayed,  \* ids of the figures handed to fig.show(), in order
    scalls,     \* style_to_matplotlib calls made: {[arg, ret, argAfter]} (values)
    lastStyle,  \* the last style_to_matplotlib call: [arg, ret] (object ids)
    dirs,       \* filesystem: the directories that exist (paths)
    files,      \* filesystem: path of a regular file -> its content
    now,        \* the wall clock, in microseconds
    th,         \* save: per thread its call frame
    log,        \* save: the records emitted through LOG.info, in order
    hist        \* save: the calls that have ended, in order

figVars == <<heap, bcall, displayed, scalls, lastStyle>>
saveVars == <<dirs, files, now, th, log, hist>>
vars == <<heap, bcall, displayed, scalls, lastStyle,
          dirs, files, now, th, log, hist>>

None == "None"

----------------------------------------------------------------------------
(* Bounds of the model.                                                    *)

MaxRows == 3        \* rows of a table handed to a builder
MaxObjs == 3        \* figure objects on the heap
MaxSaves == 2       \* save calls in one behaviour

----------------------------------------------------------------------------
(* Sequence helpers.                                                       *)

Range(s) == {s[i] : i \in 1..Len(s)}

RECURSIVE Product(_, _)
Product(f, S) ==
    IF S = {} THEN 1
    ELSE LET e == CHOOSE e \in S : TRUE IN f[e] * Product(f, S \ {e})

IsPrefix(p, s) == Len(p) <= Len(s) /\ SubSeq(s, 1, Len(p)) = p
IsSuffix(p, s) ==
    Len(p) <= Len(s) /\ SubSeq(s, Len(s) - Len(p) + 1, Len(s)) = p

----------------------------------------------------------------------------
(* Figure values.                                                          *)

NoFont == [family |-> None, size |-> None, color |-> None]

NoAxis ==
    [showline |-> None, showticklabels |-> None, linecolor |-> None,
     linewidth |-> None, ticks |-> None, tickfont |-> NoFont,
     mirror |-> None, tickwidth |-> None, tickcolor |-> None]

NoScene == [xaxis_title |-> None, yaxis_title |-> None, zaxis_title |-> None]

\* A layout with `n` cartesian subplots; layout.xaxis and layout.yaxis exist
\* in every figure (unset), further ones come with facets.
Layout(title, template, n) ==
    [title |-> title, template |-> template, font |-> NoFont,
     plot_bgcolor |-> None, width |-> None, height |-> None,
     margin |-> [l |-> None, r |-> None, t |-> None, b |-> None],
     xaxis |-> [i \in 1..n |-> NoAxis], yaxis |-> [i \in 1..n |-> NoAxis],
     scene |-> NoScene]

----------------------------------------------------------------------------
(* Tables.  A table is a sequence of rows; a row maps a column name to a   *)
(* value.  Columns x, y, z and b are numeric, column a is categorical.     *)

NumericCols == {"x", "y", "z", "b"}
CatVals == {"u", "v", "w"}
NumVals == {1, 2}

Tables ==
    UNION {[1..n -> CatVals \X NumVals] : n \in 1..MaxRows}

\* The table with rows x = y = z = 1..n and the given (a, b) cells.
DataFrame(cells) ==
    [i \in DOMAIN cells |->
        [x |-> i, y |-> i, z |-> i, a |-> cells[i][1], b |-> cells[i][2]]]

Column(df, col, rows) ==
    IF col = None THEN <<>> ELSE [i \in 1..Len(rows) |-> df[rows[i]][col]]

DistinctValues(df, col) == {df[i][col] : i \in 1..Len(df)}

----------------------------------------------------------------------------
(* plotly.express: one trace per group of rows.                             *)

GroupKey(row, by) == [k \in 1..Len(by) |-> row[by[k]]]

\* The group keys of rows 1..i, in the order they first appear.
RECURSIVE GroupNames(_, _, _)
GroupNames(df, by, i) ==
    IF i = 0 THEN <<>>
    ELSE LET prev == GroupNames(df, by, i - 1)
             k == GroupKey(df[i], by)
         IN  IF k \in Range(prev) THEN prev ELSE Append(prev, k)

RowsOf(df, by, key) ==
    SelectSeq([i \in 1..Len(df) |-> i], LAMBDA i : GroupKey(df[i], by) = key)

\* A numeric color column is drawn on a continuous color scale and groups
\* nothing; a categorical one gives one group per value.
IsContinuous(col) == col \in NumericCols

\* size splits the rows as color and symbol do.
GroupedAttrs_with_size(a) ==
    SelectSeq(<<IF a.color # None /\ ~IsContinuous(a.color) THEN a.color ELSE None,
                a.symbol, a.size, a.facet_row, a.facet_col>>,
              LAMBDA c : c # None)

\* The arguments that split the rows into traces.  size is not among them:
\* it is an array of marker sizes inside each trace.
GroupedAttrs(a) ==
    SelectSeq(<<IF a.color # None /\ ~IsContinuous(a.color) THEN a.color ELSE None,
                a.symbol, a.facet_row, a.facet_col>>,
              LAMBDA c : c # None)

NoContours ==
    [show |-> None, usecolormap |-> None, highlightcolor |-> None, project_z |-> None]

PxTrace(df, type, mode, a, by, key) ==
    LET rows == RowsOf(df, by, key)
    IN  [type |-> type, mode |-> mode, name |-> key,
         x |-> Column(df, a.x, rows),
         y |-> Column(df, a.y, rows),
         z |-> Column(df, a.z, rows),
         size |-> Column(df, a.size, rows),
         color |-> IF a.color # None /\ IsContinuous(a.color)
                   THEN Column(df, a.color, rows) ELSE <<>>,
         error_x |-> Column(df, a.error_x, rows),
         error_y |-> Column(df, a.error_y, rows),
         error_z |-> Column(df, a.error_z, rows),
         contours_z |-> NoContours]

FacetCount(df, col) ==
    IF col = None THEN 1 ELSE Cardinality(DistinctValues(df, col))

make_figure(df, type, mode, a) ==
    LET by == GroupedAttrs(a)
        names == GroupNames(df, by, Len(df))
    IN  [data |-> [g \in 1..Len(names) |-> PxTrace(df, type, mode, a, by, names[g])],
         layout |-> Layout(a.title, a.template,
                           FacetCount(df, a.facet_row) * FacetCount(df, a.facet_col))]

NoArgs ==
    [x |-> None, y |-> None, z |-> None, color |-> None, symbol |-> None,
     size |-> None, facet_col |-> None, facet_row |-> None,
     error_x |-> None, error_y |-> None, error_z |-> None,
     title |-> None, template |-> None]

----------------------------------------------------------------------------
(* The builders, up to the figure they construct.  A call's arguments are   *)
(* a record p of the function's parameters.                                 *)

line_fig(df, p) ==
    make_figure(df, "scatter", IF p.markers THEN "lines+markers" ELSE "lines",
        [NoArgs EXCEPT !.x = p.x, !.y = p.y, !.title = p.title,
                       !.error_x = p.x_error, !.error_y = p.y_error,
                       !.facet_col = p.fc, !.facet_row = p.fr,
                       !.template = IF p.dark THEN "plotly_dark" ELSE "plotly"])

scatter_fig(df, p) ==
    make_figure(df, "scatter", "markers",
        [NoArgs EXCEPT !.x = p.x, !.y = p.y, !.color = p.c, !.symbol = p.m,
                       !.size = p.s, !.title = p.title,
                       !.error_x = p.x_error, !.error_y = p.y_error,
                       !.facet_col = p.fc, !.facet_row = p.fr])

scatter3_fig(df, p) ==
    make_figure(df, "scatter3d", "markers",
        [NoArgs EXCEPT !.x = p.x, !.y = p.y, !.z = p.z, !.color = p.c,
                       !.symbol = p.m, !.size = p.s, !.title = p.title,
                       !.error_x = p.x_error, !.error_y = p.y_error,
                       !.error_z = p.z_error])

surface_fig(p) ==
    LET tr == [type |-> "surface", mode |-> None, name |-> <<>>,
               x |-> p.x, y |-> p.y, z |-> p.z, size |-> <<>>, color |-> <<>>,
               error_x |-> <<>>, error_y |-> <<>>, error_z |-> <<>>,
               contours_z |-> NoContours]
        styled == [tr EXCEPT !.contours_z =
                      [show |-> "True", usecolormap |-> "True",
                       highlightcolor |-> "limegreen", project_z |-> "True"]]
    IN  [data |-> <<styled>>,
         layout |-> [Layout(p.title, None, 1) EXCEPT !.scene =
                        [xaxis_title |-> p.title_x, yaxis_title |-> p.title_y,
                         zaxis_title |-> p.title_z]]]

\* Parameters left at their defaults.
Params ==
    [x |-> "x", y |-> "y", z |-> None, c |-> None, s |-> None, m |-> None,
     fc |-> None, fr |-> None, x_error |-> None, y_error |-> None,
     z_error |-> None, markers |-> FALSE, title |-> None, show |-> FALSE,
     dark |-> FALSE, title_x |-> None, title_y |-> None, title_z |-> None]

----------------------------------------------------------------------------
(* Builder calls.  heap is a sequence: the object with id i is heap[i],     *)
(* and a newly constructed figure gets the next id.                         *)

NoCall == [pc |-> "idle", fn |-> None, df |-> <<>>, p |-> Params, fig |-> 0, ret |-> 0]

\* The column selections a call is made with: (c, s, m, fc, fr).
Selections ==
    {<<None, None, None, None, None>>,
     <<"a", None, None, None, None>>,
     <<"b", None, None, None, None>>,
     <<None, "b", None, None, None>>,
     <<None, None, "a", None, None>>,
     <<"a", "b", None, None, None>>,
     <<"a", "b", "b", None, None>>,
     <<None, None, None, "a", "b">>,
     <<"a", "b", "a", "a", "b">>}

LineParams ==
    {[Params EXCEPT !.fc = sel[4], !.fr = sel[5], !.show = sh] :
        sel \in {q \in Selections : q[1] = None /\ q[2] = None /\ q[3] = None},
        sh \in BOOLEAN}
    \cup {[Params EXCEPT !.y_error = "b", !.markers = TRUE, !.dark = TRUE,
                         !.title = "t"]}

ScatterParams ==
    {[Params EXCEPT !.c = sel[1], !.s = sel[2], !.m = sel[3], !.fc = sel[4],
                    !.fr = sel[5], !.show = sh] :
        sel \in Selections, sh \in BOOLEAN}

Scatter3Params ==
    {[Params EXCEPT !.z = "z", !.c = sel[1], !.s = sel[2], !.m = sel[3],
                    !.show = sh] :
        sel \in {q \in Selections : q[4] = None /\ q[5] = None}, sh \in BOOLEAN}

SurfaceParams ==
    {[Params EXCEPT !.x = [i \in 1..n |-> i], !.y = [i \in 1..n |-> i],
                    !.z = [i \in 1..n |-> [j \in 1..n |-> i * j]],
                    !.title = t, !.title_z = t, !.show = sh] :
        n \in 1..MaxRows, t \in {None, "t"}, sh \in BOOLEAN}

\* fig = px.line(...)
line(cells, p) ==
    /\ bcall.pc = "idle"
    /\ heap' = Append(heap, line_fig(DataFrame(cells), p))
    /\ bcall' = [pc |-> "built", fn |-> "line", df |-> DataFrame(cells), p |-> p,
                 fig |-> Len(heap) + 1, ret |-> 0]
    /\ UNCHANGED <<displayed, scalls, lastStyle, saveVars>>

\* fig = px.scatter(...)
scatter(cells, p) ==
    /\ bcall.pc = "idle"
    /\ heap' = Append(heap, scatter_fig(DataFrame(cells), p))
    /\ bcall' = [pc |-> "built", fn |-> "scatter", df |-> DataFrame(cells), p |-> p,
                 fig |-> Len(heap) + 1, ret |-> 0]
    /\ UNCHANGED <<displayed, scalls, lastStyle, saveVars>>

\* fig = px.scatter_3d(...)
scatter3(cells, p) ==
    /\ bcall.pc = "idle"
    /\ heap' = Append(heap, scatter3_fig(DataFrame(cells), p))
    /\ bcall' = [pc |-> "built", fn |-> "scatter3", df |-> DataFrame(cells), p |-> p,
                 fig |-> Len(heap) + 1, ret |-> 0]
    /\ UNCHANGED <<displayed, scalls, lastStyle, saveVars>>

\* fig = go.Figure(data=[go.Surface(...)]); fig.update_traces; fig.update_layout
surface(p) ==
    /\ bcall.pc = "idle"
    /\ heap' = Append(heap, surface_fig(p))
    /\ bcall' = [pc |-> "built", fn |-> "surface", df |-> <<>>, p |-> p,
                 fig |-> Len(heap) + 1, ret |-> 0]
    /\ UNCHANGED <<displayed, scalls, lastStyle, saveVars>>

ShowAlways(show) == TRUE

\* The condition of `if show:`.
ShowTaken(show) == show

\* if show: fig.show()
Show ==
    /\ bcall.pc = "built"
    /\ displayed' = IF ShowTaken(bcall.p.show)
                    THEN Append(displayed, bcall.fig) ELSE displayed
    /\ bcall' = [bcall EXCEPT !.pc = "return"]
    /\ UNCHANGED <<heap, scalls, lastStyle, saveVars>>

\* return fig
Return ==
    /\ bcall.pc = "return"
    /\ bcall' = [bcall EXCEPT !.pc = "done", !.ret = bcall.fig]
    /\ UNCHANGED <<heap, displayed, scalls, lastStyle, saveVars>>

----------------------------------------------------------------------------
(* style_to_matplotlib.                                                     *)

font_dict == [family |-> "Arial", size |-> "26", color |-> "black"]

\* go.Figure(layout=fig.layout): the traces are left behind.
go_Figure_layout_only(fig) == [data |-> <<>>, layout |-> fig.layout]

\* go.Figure(fig): a new figure holding a copy of fig's traces and layout.
go_Figure(fig) == [data |-> fig.data, layout |-> fig.layout]

\* update_layout merges into what is set: margin.l is left as it is.
update_layout(fig) ==
    [fig EXCEPT !.layout =
        [@ EXCEPT !.font = font_dict, !.plot_bgcolor = "white",
                  !.width = "850", !.height = "700",
                  !.margin = [@ EXCEPT !.r = "20", !.t = "20", !.b = "10"]]]

StyledAxis(ax) ==
    [ax EXCEPT !.showline = "True", !.linecolor = "black", !.linewidth = "2.4",
               !.ticks = "outside", !.tickfont = font_dict,
               !.mirror = "allticks", !.tickwidth = "2.4", !.tickcolor = "black"]

\* A line width taken relative to the one already set.
update_yaxes_relative(fig) ==
    LET old == fig.layout.yaxis
    IN  [fig EXCEPT !.layout.yaxis =
            [i \in DOMAIN old |->
                [StyledAxis(old[i]) EXCEPT !.linewidth =
                    IF old[i].linewidth = None THEN "2.4" ELSE "4.8"]]]

update_yaxes(fig) ==
    [fig EXCEPT !.layout.yaxis = [i \in DOMAIN @ |-> StyledAxis(@[i])]]

update_xaxes(fig) ==
    [fig EXCEPT !.layout.xaxis =
        [i \in DOMAIN @ |-> [StyledAxis(@[i]) EXCEPT !.showticklabels = "True"]]]

Styled(fig) == update_xaxes(update_yaxes(update_layout(fig)))

\* fig_styled = fig: the argument itself is restyled and returned.
style_in_place(h, o) ==
    [heap |-> [h EXCEPT ![o] = Styled(h[o])], ret |-> o]

\* The heap after the call, and the id of the figure returned.
style_to_matplotlib(h, o) ==
    [heap |-> Append(h, Styled(go_Figure(h[o]))), ret |-> Len(h) + 1]

StyleCall(o) ==
    /\ Len(heap) < MaxObjs
    /\ LET res == style_to_matplotlib(heap, o)
       IN  /\ heap' = res.heap
           /\ lastStyle' = [n |-> lastStyle.n + 1, arg |-> o, ret |-> res.ret]
           /\ scalls' = scalls \cup {[arg |-> heap[o], ret |-> res.heap[res.ret]]}
    /\ UNCHANGED <<bcall, displayed, saveVars>>

\* The caller changes a setting of one of its figures.
Mutations == {"margin_l", "drop_trace"}

Mutated(fig, kind) ==
    CASE kind = "margin_l" -> [fig EXCEPT !.layout.margin.l = "5"]
      [] kind = "drop_trace" -> [fig EXCEPT !.data = SubSeq(@, 1, Len(@) - 1)]

Mutate(o, kind) ==
    /\ Mutated(heap[o], kind) # heap[o]
    /\ heap' = [heap EXCEPT ![o] = Mutated(heap[o], kind)]
    /\ UNCHANGED <<bcall, displayed, scalls, lastStyle, saveVars>>

----------------------------------------------------------------------------
(* save.  A string is a sequence of characters; a path is a sequence of     *)
(* components, each a string.                                               *)

Digits == <<"0", "1", "2", "3", "4", "5", "6", "7", "8", "9">>

\* n in decimal, zero-padded to w digits (the low w digits of n).
Pad(n, w) == [i \in 1..w |-> Digits[((n \div (10 ^ (w - i))) % 10) + 1]]

\* The local date and time t microseconds after the epoch of the model.
datetime(t) ==
    [year |-> 2022, month |-> 1, day |-> 1, hour |-> 0,
     minute |-> (t \div 60000000) % 60,
     second |-> (t \div 1000000) % 60,
     microsecond |-> t % 1000000]

\* "%Y-%m-%d_%H-%M-%S": the microseconds are left out.
strftime_seconds(dt) ==
    Pad(dt.year, 4) \o <<"-">> \o Pad(dt.month, 2) \o <<"-">> \o Pad(dt.day, 2)
    \o <<"_">> \o Pad(dt.hour, 2) \o <<"-">> \o Pad(dt.minute, 2)
    \o <<"-">> \o Pad(dt.second, 2)

\* "%Y-%m-%d_%H-%M-%S-%f"
strftime(dt) ==
    Pad(dt.year, 4) \o <<"-">> \o Pad(dt.month, 2) \o <<"-">> \o Pad(dt.day, 2)
    \o <<"_">> \o Pad(dt.hour, 2) \o <<"-">> \o Pad(dt.minute, 2)
    \o <<"-">> \o Pad(dt.second, 2) \o <<"-">> \o Pad(dt.microsecond, 6)

Html == <<".", "h", "t", "m", "l">>

\* path / f"{name}_{timestamp}": the extension is forgotten.
FilePath_no_ext(path, name, timestamp) ==
    Append(path, name \o <<"_">> \o timestamp)

\* path / f"{name}_{timestamp}.html"
FilePath(path, name, timestamp) ==
    Append(path, name \o <<"_">> \o timestamp \o Html)

\* fig.to_html(): the document written for a figure (a figure is given here
\* by the sequence of its traces' names).
to_html(fig) == <<"<html>">> \o fig \o <<"</html>">>

Prefixes(path) == {SubSeq(path, 1, k) : k \in 0..Len(path)}

\* exist_ok=False: an existing directory is an error too.
CanMkdir_no_exist_ok(path) ==
    /\ path \notin dirs
    /\ \A q \in Prefixes(path) : q \notin DOMAIN files

\* path.mkdir(parents=True, exist_ok=True) succeeds unless the path or one of
\* its ancestors is a regular file.
CanMkdir(path) == \A q \in Prefixes(path) : q \notin DOMAIN files

\* Opening for append: the data goes after what is there.
WriteAppend(old, data) == old \o data

\* Writing data from offset 0 into a file holding old.
WriteAt0(old, data) == data \o SubSeq(old, Len(data) + 1, Len(old))

\* The handler never written: the error is swallowed and save goes on.
OnMkdirError_swallow(f) == [f EXCEPT !.pc = "now"]

\* No try/except around path.mkdir: the error leaves save.
OnMkdirError(f) == [f EXCEPT !.pc = "raised"]

Threads == {1, 2}

O == <<"o">>
I == <<"i">>
X == <<"x">>
\* The arguments save is called with: (fig, name, path).
SaveArgs ==
    {<<<<"A">>, <<"p">>, <<O>>>>,
     <<<<"B", "B">>, <<"p">>, <<O>>>>,
     <<<<"A">>, <<"q">>, <<I, O>>>>}

Idle ==
    [pc |-> "idle", fig |-> <<>>, name |-> <<>>, path |-> <<>>, reading |-> -1,
     filepath |-> <<>>, failed |-> <<>>, mkdirs |-> 0, writes |-> 0,
     written |-> FALSE, logged |-> <<>>, ret |-> <<>>]

File(content, last) == [content |-> content, last |-> last]

\* The filesystems a behaviour may start from: empty; the directory o with
\* an older file in it; a regular file where the directory o should be.
FsInits ==
    {[dirs |-> {<<>>}, files |-> <<>>],
     [dirs |-> {<<>>, <<O>>}, files |-> (<<O, X>> :> File(<<"old">>, <<"old">>))],
     [dirs |-> {<<>>}, files |-> (<<O>> :> File(<<"old">>, <<"old">>))]}

Started == Len(hist) + Cardinality({t \in Threads : th[t].pc # "idle"})

\* save(fig, name, path) is called; the call runs on the first free thread.
save(t, fig, name, path) ==
    /\ th[t].pc = "idle"
    /\ \A u \in Threads : u < t => th[u].pc # "idle"
    /\ Started < MaxSaves
    /\ th' = [th EXCEPT ![t] = [Idle EXCEPT !.pc = "mkdir", !.fig = fig,
                                             !.name = name, !.path = path]]
    /\ UNCHANGED <<figVars, dirs, files, now, log, hist>>

\* The same, with no other call in progress.
save_seq(t, fig, name, path) ==
    /\ \A u \in Threads : th[u].pc = "idle"
    /\ save(t, fig, name, path)

\* path.mkdir(parents=True, exist_ok=True)
Mkdir(t) ==
    /\ th[t].pc = "mkdir"
    /\ CanMkdir(th[t].path)
    /\ dirs' = dirs \cup Prefixes(th[t].path)
    /\ th' = [th EXCEPT ![t].pc = "now", ![t].mkdirs = @ + 1]
    /\ UNCHANGED <<figVars, files, now, log, hist>>

MkdirFail(t) ==
    /\ th[t].pc = "mkdir"
    /\ ~CanMkdir(th[t].path)
    /\ th' = [th EXCEPT ![t] =
                OnMkdirError([@ EXCEPT !.mkdirs = @ + 1, !.failed = Append(@, "mkdir")])]
    /\ UNCHANGED <<figVars, dirs, files, now, log, hist>>

\* timestamp = datetime.now().strftime(...); filepath = path / f"..."
Timestamp(t) ==
    /\ th[t].pc = "now"
    /\ th' = [th EXCEPT ![t].pc = "open", ![t].reading = now,
                        ![t].filepath =
                            FilePath(th[t].path, th[t].name, strftime(datetime(now)))]
    /\ UNCHANGED <<figVars, dirs, files, now, log, hist>>

\* fig.write_html opens the file for writing: it is created, or truncated.
Open(t) ==
    /\ th[t].pc = "open"
    /\ SubSeq(th[t].filepath, 1, Len(th[t].filepath) - 1) \in dirs
    /\ files' = [p \in DOMAIN files \cup {th[t].filepath} |->
                    IF p = th[t].filepath THEN File(<<>>, <<>>) ELSE files[p]]
    /\ th' = [th EXCEPT ![t].pc = "write", ![t].writes = @ + 1]
    /\ UNCHANGED <<figVars, dirs, now, log, hist>>

\* fig.write_html writes the document and closes the file.
Write(t) ==
    /\ th[t].pc = "write"
    /\ files' = [files EXCEPT ![th[t].filepath] =
                    File(WriteAt0(@.content, to_html(th[t].fig)), to_html(th[t].fig))]
    /\ th' = [th EXCEPT ![t].pc = "log", ![t].written = TRUE]
    /\ UNCHANGED <<figVars, dirs, now, log, hist>>

\* The file cannot be opened or written (permissions, no directory, no
\* space left): the error leaves save.
WriteFail(t) ==
    /\ th[t].pc \in {"open", "write"}
    /\ th' = [th EXCEPT ![t].pc = "raised", ![t].failed = Append(@, "write"),
                        ![t].writes = IF th[t].pc = "open" THEN @ + 1 ELSE @]
    /\ UNCHANGED <<figVars, dirs, files, now, log, hist>>

\* LOG.info(f"Saved figure to {filepath}")
LogInfo(t) ==
    /\ th[t].pc = "log"
    /\ log' = Append(log, th[t].filepath)
    /\ th' = [th EXCEPT ![t].pc = "return", ![t].logged = th[t].filepath]
    /\ UNCHANGED <<figVars, dirs, files, now, hist>>

\* return filepath
SaveReturn(t) ==
    /\ th[t].pc = "return"
    /\ hist' = Append(hist, [th[t] EXCEPT !.pc = "returned", !.ret = th[t].filepath])
    /\ th' = [th EXCEPT ![t] = Idle]
    /\ UNCHANGED <<figVars, dirs, files, now, log>>

\* The exception reaches the caller.
SaveRaise(t) ==
    /\ th[t].pc = "raised"
    /\ hist' = Append(hist, th[t])
    /\ th' = [th EXCEPT ![t] = Idle]
    /\ UNCHANGED <<figVars, dirs, files, now, log>>

\* The readings of the clock: two in one second, and two either side of the
\* turn of a second.
ClockValues == {0, 1, 999999, 1000000}

\* Time passes.
Tick(c) ==
    /\ c > now
    /\ now' = c
    /\ UNCHANGED <<figVars, dirs, files, th, log, hist>>

----------------------------------------------------------------------------
(* Specifications.                                                          *)

InitFig ==
    /\ heap = <<>>
    /\ bcall = NoCall
    /\ displayed = <<>>
    /\ scalls = {}
    /\ lastStyle = [n |-> 0, arg |-> 0, ret |-> 0]

InitSave ==
    /\ dirs = {<<>>}
    /\ files = <<>>
    /\ now = 0
    /\ th = [t \in Threads |-> Idle]
    /\ log = <<>>
    /\ hist = <<>>

\* One call of a builder.
InitBuild == InitFig /\ InitSave

Called == bcall.pc = "idle"

NextBuild ==
    \/ Called /\ \E cells \in Tables, p \in LineParams : line(cells, p)
    \/ Called /\ \E cells \in Tables, p \in ScatterParams : scatter(cells, p)
    \/ Called /\ \E cells \in Tables, p \in Scatter3Params : scatter3(cells, p)
    \/ Called /\ \E p \in SurfaceParams : surface(p)
    \/ Show
    \/ Return

SpecBuild == InitBuild /\ [][NextBuild]_vars

\* The figures style_to_matplotlib is first called on.
Cells1 == <<<<"u", 1>>, <<"v", 2>>>>

StyleInputs ==
    {line_fig(DataFrame(Cells1), Params),
     scatter_fig(DataFrame(Cells1), [Params EXCEPT !.fc = "a", !.s = "b"]),
     surface_fig([Params EXCEPT !.x = <<1, 2>>, !.y = <<1, 2>>,
                                !.z = <<<<1, 2>>, <<2, 4>>>>])}

InitStyle ==
    /\ heap \in {<<f>> : f \in StyleInputs}
    /\ bcall = NoCall
    /\ displayed = <<>>
    /\ scalls = {}
    /\ lastStyle = [n |-> 0, arg |-> 0, ret |-> 0]
    /\ InitSave

NextStyle ==
    \/ \E o \in 1..Len(heap) : StyleCall(o)
    \/ \E o \in 1..Len(heap), kind \in Mutations : Mutate(o, kind)

SpecStyle == InitStyle /\ [][NextStyle]_vars

\* save called from two threads.
Init ==
    /\ InitFig
    /\ \E fs \in FsInits : dirs = fs.dirs /\ files = fs.files
    /\ now = 0
    /\ th = [t \in Threads |-> Idle]
    /\ log = <<>>
    /\ hist = <<>>

SaveSteps ==
    \/ \E t \in Threads : Mkdir(t)
    \/ \E t \in Threads : MkdirFail(t)
    \/ \E t \in Threads : Timestamp(t)
    \/ \E t \in Threads : Open(t)
    \/ \E t \in Threads : Write(t)
    \/ \E t \in Threads : WriteFail(t)
    \/ \E t \in Threads : LogInfo(t)
    \/ \E t \in Threads : SaveReturn(t)
    \/ \E t \in Threads : SaveRaise(t)
    \/ \E c \in ClockValues : Tick(c)

Next ==
    \/ \E t \in Threads, a \in SaveArgs : save(t, a[1], a[2], a[3])
    \/ SaveSteps

Spec == Init /\ [][Next]_vars

\* save called again only after the call before has ended.
NextSeq ==
    \/ \E t \in Threads, a \in SaveArgs : save_seq(t, a[1], a[2], a[3])
    \/ SaveSteps

SpecSeq == Init /\ [][NextSeq]_vars

----------------------------------------------------------------------------
(* Claims about the builders (SpecBuild).                                   *)

\* The number of traces by the cross-product of the numbers of distinct values
\* in the color, size, symbol and facet columns passed.
CrossProduct ==
    LET roles == {r \in {"c", "s", "m", "fc", "fr"} : bcall.p[r] # None}
    IN  Product([r \in roles |-> Cardinality(DistinctValues(bcall.df, bcall.p[r]))],
                roles)

\* The columns whose values split the rows into traces: a categorical color
\* column, the symbol column and the facet columns; never the size column.
SplitCols ==
    (({bcall.p.c} \ NumericCols) \cup {bcall.p.m, bcall.p.fc, bcall.p.fr}) \ {None}

\* The combinations of values of the splitting columns that occur in a row.
Occurring ==
    {[col \in SplitCols |-> bcall.df[i][col]] : i \in 1..Len(bcall.df)}

RECURSIVE Points(_, _)
Points(data, n) == IF n = 0 THEN 0 ELSE Len(data[n].x) + Points(data, n - 1)

\* C8 as stated: every builder returns a figure whose trace count is the
\* cross-product of the numbers of distinct values in the color, size, symbol
\* and facet columns passed to it.
C8_TraceCountIsCrossProduct ==
    bcall.pc = "done" =>
        /\ bcall.ret \in 1..Len(heap)
        /\ Len(heap[bcall.ret].data) = CrossProduct

\* C8 amended: every builder returns a figure; line, scatter and scatter3
\* return one trace per combination of values of the categorical color column,
\* the symbol column and the facet columns that occurs in a row (at most the
\* cross-product of their numbers of distinct values), the size column and a
\* numeric color column adding none, and every row is a point of exactly one
\* trace; surface returns one trace.  With no such column there is one trace
\* holding all rows in order.
C8_TraceCount ==
    bcall.pc = "done" =>
        /\ bcall.ret \in 1..Len(heap)
        /\ LET data == heap[bcall.ret].data
           IN  IF bcall.fn = "surface" THEN Len(data) = 1
               ELSE /\ Len(data) = Cardinality(Occurring)
                    /\ Len(data) <= CrossProduct
                    /\ Points(data, Len(data)) = Len(bcall.df)
                    /\ SplitCols = {} =>
                          /\ data[1].x = [i \in 1..Len(bcall.df) |-> bcall.df[i].x]
                          /\ data[1].y = [i \in 1..Len(bcall.df) |-> bcall.df[i].y]

\* scatter with a color column of 3 distinct values and a size column of 2
\* has returned 3 traces.
C8_Witness ==
    /\ bcall.pc = "done"
    /\ bcall.fn = "scatter"
    /\ bcall.p.c = "a" /\ bcall.p.s = "b" /\ bcall.p.m = None /\ bcall.p.fc = None
    /\ Cardinality(DistinctValues(bcall.df, "a")) = 3
    /\ Cardinality(DistinctValues(bcall.df, "b")) = 2
    /\ Len(heap[bcall.ret].data) = 3

----------------------------------------------------------------------------
(* Claims about style_to_matplotlib (SpecStyle).                            *)

\* C1: a call of style_to_matplotlib leaves every figure that existed before
\* it, its argument among them, exactly as it was, and returns a figure that
\* is a new object; a later change to one of the two is not a change to the
\* other.
C1_ArgumentUntouched ==
    [][/\ lastStyle'.n # lastStyle.n =>
            /\ \A o \in 1..Len(heap) : o \in 1..Len(heap') /\ heap'[o] = heap[o]
            /\ lastStyle'.ret \notin 1..Len(heap)
            /\ lastStyle'.ret # lastStyle'.arg
       /\ (lastStyle'.n = lastStyle.n /\ lastStyle.n > 0) =>
            ~(/\ heap'[lastStyle.arg] # heap[lastStyle.arg]
              /\ heap'[lastStyle.ret] # heap[lastStyle.ret])]_vars

\* A call has restyled its copy, and the copy was then changed by the caller
\* while the argument kept its setting.
C1_Witness ==
    /\ lastStyle.n > 0
    /\ heap[lastStyle.ret].layout.width = "850"
    /\ heap[lastStyle.arg].layout.width = None
    /\ heap[lastStyle.ret].layout.margin.l = "5"
    /\ heap[lastStyle.arg].layout.margin.l = None

\* The cosmetic settings: font, background, size, margins and the axes' line
\* and tick settings.
Cosmetic(fig) ==
    [font |-> fig.layout.font, plot_bgcolor |-> fig.layout.plot_bgcolor,
     width |-> fig.layout.width, height |-> fig.layout.height,
     margin |-> fig.layout.margin,
     xaxis |-> fig.layout.xaxis, yaxis |-> fig.layout.yaxis]

\* C2: styling a styled figure gives the cosmetic settings the first styling
\* gave, and calls on equal figures return equal figures.
C2_Idempotent ==
    \A c1, c2 \in scalls :
        /\ c2.arg = c1.ret => Cosmetic(c2.ret) = Cosmetic(c1.ret)
        /\ c2.arg = c1.arg => c2.ret = c1.ret

\* A figure with a left margin of its own was styled, and the result styled
\* again.
C2_Witness ==
    \E c1, c2 \in scalls :
        /\ c2.arg = c1.ret
        /\ Cosmetic(c1.arg) # Cosmetic(c1.ret)
        /\ c1.arg.layout.margin.l = "5"

\* C9: the figure returned has the traces of the argument, in the same order,
\* each with the same type and data, and the same title, template and scene;
\* only cosmetic settings differ.
C9_TracesKept ==
    \A c \in scalls :
        /\ c.ret.data = c.arg.data
        /\ c.ret.layout.title = c.arg.layout.title
        /\ c.ret.layout.template = c.arg.layout.template
        /\ c.ret.layout.scene = c.arg.layout.scene

\* A figure of two traces was styled.
C9_Witness ==
    \E c \in scalls :
        /\ Len(c.arg.data) >= 2
        /\ Cosmetic(c.ret) # Cosmetic(c.arg)

----------------------------------------------------------------------------
(* Claims about save (Spec: two threads; SpecSeq: one call at a time).      *)

\* The frames of all calls: of those that have ended, in order, and then of
\* the threads.
AllFrames == hist \o [k \in 1..Cardinality(Threads) |-> th[k]]

Frames == Range(AllFrames)

Ended(outcome) == {i \in 1..Len(hist) : hist[i].pc = outcome}

DigitVal(c) == CHOOSE d \in 0..9 : Digits[d + 1] = c

RECURSIVE Decode(_)
Decode(str) ==
    IF str = <<>> THEN 0
    ELSE 10 * Decode(SubSeq(str, 1, Len(str) - 1)) + DigitVal(str[Len(str)])

\* stamp reads YYYY-MM-DD_HH-MM-SS-ffffff, its seconds and microseconds being
\* those of the clock reading.
StampOf(stamp, reading) ==
    /\ Len(stamp) = 26
    /\ stamp[5] = "-" /\ stamp[8] = "-" /\ stamp[11] = "_"
    /\ stamp[14] = "-" /\ stamp[17] = "-" /\ stamp[20] = "-"
    /\ \A k \in (1..26) \ {5, 8, 11, 14, 17, 20} : stamp[k] \in Range(Digits)
    /\ Decode(SubSeq(stamp, 15, 16)) = (reading \div 60000000) % 60
    /\ Decode(SubSeq(stamp, 18, 19)) = (reading \div 1000000) % 60
    /\ Decode(SubSeq(stamp, 21, 26)) = reading % 1000000

FileName(filepath) == filepath[Len(filepath)]
Parent(filepath) == SubSeq(filepath, 1, Len(filepath) - 1)

\* C3: a call that returns returns path/<name>_<timestamp>.html, the timestamp
\* being the one clock reading of the call, and a file is at that path.
C3_ReturnedPath ==
    \A i \in Ended("returned") :
        LET h == hist[i]
            fname == FileName(h.ret)
        IN  /\ Parent(h.ret) = h.path
            /\ IsPrefix(h.name \o <<"_">>, fname)
            /\ IsSuffix(Html, fname)
            /\ StampOf(SubSeq(fname, Len(h.name) + 2, Len(fname) - Len(Html)),
                       h.reading)
            /\ h.ret \in DOMAIN files

\* A call into a directory two levels down has returned, the clock reading
\* 999999 microseconds.
C3_Witness ==
    \E i \in Ended("returned") :
        /\ hist[i].reading = 999999
        /\ hist[i].path = <<I, O>>
        /\ hist[i].ret \in DOMAIN files

\* The calls made with a name and a directory whose clock reading is that of
\* no other such call.
Alone(i) ==
    \A k \in (1..Len(AllFrames)) \ {i} :
        (AllFrames[k].name = hist[i].name /\ AllFrames[k].path = hist[i].path)
            => AllFrames[k].reading # hist[i].reading

\* C4: of calls made one after the other with the same name and directory and
\* different clock readings, each has its own file: the paths returned differ,
\* the file of each call holds what that call wrote, and when all of them
\* returned the directory holds one such file per call.
C4_SequentialDistinct ==
    /\ \A i, j \in Ended("returned") :
          (/\ i # j
           /\ hist[i].name = hist[j].name /\ hist[i].path = hist[j].path
           /\ hist[i].reading # hist[j].reading) => hist[i].ret # hist[j].ret
    /\ \A i \in Ended("returned") :
          Alone(i) =>
              /\ hist[i].ret \in DOMAIN files
              /\ files[hist[i].ret].content = to_html(hist[i].fig)
    /\ \A a \in SaveArgs :
          LET calls == {i \in 1..Len(hist) :
                            hist[i].name = a[2] /\ hist[i].path = a[3]}
          IN  (/\ \A t \in Threads : th[t].pc = "idle"
               /\ \A i \in calls : hist[i].pc = "returned" /\ Alone(i))
              => Cardinality({q \in DOMAIN files :
                                 /\ Parent(q) = a[3]
                                 /\ IsPrefix(a[2] \o <<"_">>, FileName(q))})
                 = Cardinality(calls)

\* Two calls with the same name and directory have returned, their clock
\* readings one microsecond apart, and both files are there.
C4_Witness ==
    \E i, j \in Ended("returned") :
        /\ hist[i].name = hist[j].name /\ hist[i].path = hist[j].path
        /\ hist[i].fig # hist[j].fig
        /\ hist[i].reading = 0 /\ hist[j].reading = 1
        /\ files[hist[i].ret].content = to_html(hist[i].fig)
        /\ files[hist[j].ret].content = to_html(hist[j].fig)

\* The calls that name filepath q.
CallsOn(q) == {k \in 1..Len(AllFrames) : AllFrames[k].filepath = q}

\* d1 written over d2 from offset 0.
Over(d1, d2) == d1 \o SubSeq(d2, Len(d1) + 1, Len(d2))

\* C5 as stated: two calls with the same name and directory get different
\* paths unless they read the same timestamp; then both return the same path
\* and the file holds what the last write wrote.
C5_LastWriteWins ==
    \A i, j \in Ended("returned") :
        (i # j /\ hist[i].name = hist[j].name /\ hist[i].path = hist[j].path) =>
            /\ hist[i].reading # hist[j].reading => hist[i].ret # hist[j].ret
            /\ hist[i].reading = hist[j].reading =>
                  /\ hist[i].ret = hist[j].ret
                  /\ hist[i].ret \in DOMAIN files
                  /\ CallsOn(hist[i].ret) = {i, j} =>
                        files[hist[i].ret].content = files[hist[i].ret].last

\* C5 amended: two calls with the same name and directory get different paths
\* unless they read the same timestamp; then both return the same path, where
\* one file is left.  Each call truncates the file when it opens it and then
\* writes its document from offset 0, so the file holds the document written
\* last, followed by what of the other's longer document lies beyond it when
\* that one was written in between: it need not be the document of either.
C5_OneFileMixed ==
    \A i, j \in Ended("returned") :
        (i # j /\ hist[i].name = hist[j].name /\ hist[i].path = hist[j].path) =>
            /\ hist[i].reading # hist[j].reading => hist[i].ret # hist[j].ret
            /\ hist[i].reading = hist[j].reading =>
                  /\ hist[i].ret = hist[j].ret
                  /\ hist[i].ret \in DOMAIN files
                  /\ CallsOn(hist[i].ret) = {i, j} =>
                        LET di == to_html(hist[i].fig)
                            dj == to_html(hist[j].fig)
                            file == files[hist[i].ret]
                        IN  /\ file.last \in {di, dj}
                            /\ file.content \in
                                  {file.last, Over(di, dj), Over(dj, di)}
                            /\ IsPrefix(file.last, file.content)

\* Two calls read the same timestamp and returned the same path, and the file
\* there is the document of neither.
C5_Witness ==
    \E i, j \in Ended("returned") :
        /\ i # j
        /\ hist[i].ret = hist[j].ret
        /\ hist[i].fig # hist[j].fig
        /\ files[hist[i].ret].content \notin
              {to_html(hist[i].fig), to_html(hist[j].fig)}

\* C6: a failure to create the directory leaves save at once: no timestamp is
\* taken, no file opened, nothing logged, nothing returned; a failure to write
\* the file leaves save with nothing logged and nothing returned; no step is
\* tried twice; and a log record is emitted only after the write succeeded and
\* names the path that is returned.
C6_NoRecovery ==
    /\ \A f \in Frames :
          /\ "mkdir" \in Range(f.failed) =>
                /\ f.pc = "raised"
                /\ f.reading = -1 /\ f.filepath = <<>>
                /\ f.writes = 0 /\ ~f.written
                /\ f.logged = <<>> /\ f.ret = <<>>
          /\ "write" \in Range(f.failed) =>
                /\ f.pc = "raised"
                /\ ~f.written /\ f.logged = <<>> /\ f.ret = <<>>
          /\ Len(f.failed) <= 1 /\ f.mkdirs <= 1 /\ f.writes <= 1
          /\ f.logged # <<>> => f.written /\ f.logged = f.filepath
          /\ f.pc = "returned" => f.failed = <<>> /\ f.ret = f.logged /\ f.ret # <<>>
    /\ Range(log) = {f.logged : f \in {g \in Frames : g.logged # <<>>}}

\* One call failed to create its directory and another failed to write.
C6_Witness ==
    \E i, j \in Ended("raised") :
        /\ hist[i].failed = <<"mkdir">>
        /\ hist[j].failed = <<"write">>
        /\ log = <<>>

\* C7: once the directory step of a call has succeeded the directory and all
\* its ancestors exist; the step fails only where the path or an ancestor is a
\* regular file, never because the directory exists; no directory and no file
\* ever goes away, and the content of a file changes only through a call that
\* is writing that very path.
C7_DirectoryEnsured ==
    /\ [](\A f \in Frames :
            /\ (f.mkdirs = 1 /\ f.failed # <<"mkdir">>) => Prefixes(f.path) \subseteq dirs
            /\ f.failed = <<"mkdir">> =>
                  /\ f.path \notin dirs
                  /\ \E q \in Prefixes(f.path) : q \in DOMAIN files)
    /\ [][/\ dirs \subseteq dirs'
          /\ \A q \in DOMAIN files :
                /\ q \in DOMAIN files'
                /\ files'[q].content # files[q].content =>
                      \E t \in Threads :
                          th[t].filepath = q /\ th[t].pc \in {"open", "write"}]_vars

\* A call into a directory that existed, with an older file in it, has
\* returned, and the older file is as it was.
C7_Witness ==
    \E i \in Ended("returned") :
        /\ hist[i].path = <<O>>
        /\ <<O, X>> \in DOMAIN files
        /\ files[<<O, X>>].content = <<"old">>
        /\ hist[i].ret \in DOMAIN files

====
